---- MODULE Spec2Model ----
(***************************************************************************)
(* Model of the token matching engine of language-tokenizer (src/lib.rs):  *)
(* Token / MatchMode / MatchResult, the exact and fuzzy window matchers,   *)
(* the dispatcher find_match, the multi-match loop find_all_matches, and   *)
(* the feature-gated dispatch of tokenize.                                 *)
(*                                                                         *)
(* A text is a sequence of one-character strings.  Token indices, window   *)
(* indices and the cursor are 0-based as in the source; TLA+ sequences are *)
(* 1-based, so haystack token i is haystack[i + 1].  An f64 score is       *)
(* modelled by the exact rational it approximates, kept in lowest terms.   *)
(***************************************************************************)
EXTENDS Integers, Sequences, FiniteSets

VARIABLES haystack, needle, mode, permissive, pc, fmResult, fmWindow, ran,
          offset, results, lastIdx, ranAll, sliceAt,
          algorithm, features, tokResult

matchVars == <<haystack, needle, mode, permissive, pc, fmResult, fmWindow, ran,
               offset, results, lastIdx, ranAll, sliceAt>>

tokVars == <<algorithm, features, tokResult>>

vars == <<matchVars, tokVars>>

----------------------------------------------------------------------------
(* Bounds of the model *)

MaxHay == 3

MaxNeedle == 2

----------------------------------------------------------------------------
(* Characters and case conversion *)

Upper == {"A", "B"}

char_to_lowercase(c) ==
    IF c = "A" THEN "a" ELSE IF c = "B" THEN "b" ELSE c

to_lowercase(text) == [k \in 1..Len(text) |-> char_to_lowercase(text[k])]

upper_count(text) == Cardinality({k \in 1..Len(text) : text[k] \in Upper})

----------------------------------------------------------------------------
(* f64 scores as exact rationals *)

RECURSIVE Gcd(_, _)
Gcd(a, b) == IF b = 0 THEN a ELSE Gcd(b, a % b)

Rat(n, d) == LET g == Gcd(n, d) IN [num |-> n \div g, den |-> d \div g]

RatAdd(x, y) == Rat(x.num * y.den + y.num * x.den, x.den * y.den)

RatDiv(x, k) == Rat(x.num, x.den * k)

RatGeq(x, y) == x.num * y.den >= y.num * x.den

RatGt(x, y) == x.num * y.den > y.num * x.den

----------------------------------------------------------------------------
(* strsim::normalized_levenshtein *)

Min2(a, b) == IF a <= b THEN a ELSE b

Max2(a, b) == IF a >= b THEN a ELSE b

RECURSIVE levenshtein(_, _)
levenshtein(a, b) ==
    IF Len(a) = 0 THEN Len(b)
    ELSE IF Len(b) = 0 THEN Len(a)
    ELSE LET cost == IF a[1] = b[1] THEN 0 ELSE 1
         IN  Min2(Min2(levenshtein(Tail(a), b) + 1, levenshtein(a, Tail(b)) + 1),
                  levenshtein(Tail(a), Tail(b)) + cost)

normalized_levenshtein(a, b) ==
    IF Len(a) = 0 /\ Len(b) = 0 THEN Rat(1, 1)
    ELSE LET m == Max2(Len(a), Len(b))
         IN  Rat(m - levenshtein(a, b), m)

----------------------------------------------------------------------------
(* Data model *)

Token(text, start, len) == [text |-> text, start |-> start, len |-> len]

None == [tag |-> "None"]

Panic == [tag |-> "Panic"]

Exact(off, length) == [tag |-> "Exact", offset |-> off, length |-> length]

Fuzzy(off, length, score) ==
    [tag |-> "Fuzzy", offset |-> off, length |-> length, score |-> score]

ModeExact == [kind |-> "Exact"]

ModeFuzzy(t) == [kind |-> "Fuzzy", threshold |-> t]

ModeBoth(t) == [kind |-> "Both", threshold |-> t]

TokenEqDerived(a, b) == a = b

TokenEq(a, b) == a.text = b.text

----------------------------------------------------------------------------
(* Slices and windows *)

SliceOffByOne(h, from) == SubSeq(h, from + 2, Len(h))

Slice(h, from) == SubSeq(h, from + 1, Len(h))

Window(h, i, n) == SubSeq(h, i + 1, i + n)

WindowStarts(h, n) == 0..(Len(h) - n)

SetMin(S) == CHOOSE x \in S : \A y \in S : x <= y

SetMax(S) == CHOOSE x \in S : \A y \in S : x >= y

LastOf(S) == IF S = {} THEN -1 ELSE SetMax(S)

FirstOf(S) == IF S = {} THEN -1 ELSE SetMin(S)

RECURSIVE sum_len(_)
sum_len(tokens) ==
    IF tokens = <<>> THEN 0 ELSE Head(tokens).len + sum_len(Tail(tokens))

UpperAtLeast(window, nd) ==
    \A k \in 1..Len(nd) : upper_count(window[k].text) >= upper_count(nd[k].text)

----------------------------------------------------------------------------
(* find_exact_match *)

SliceEq(window, nd) ==
    /\ Len(window) = Len(nd)
    /\ \A k \in 1..Len(nd) : TokenEq(window[k], nd[k])

ExactMatchesNoCount(window, nd, perm) ==
    IF perm
    THEN \A k \in 1..Len(nd) :
            to_lowercase(window[k].text) = to_lowercase(nd[k].text)
    ELSE SliceEq(window, nd)

ExactMatchesStrictCount(window, nd, perm) ==
    IF perm
    THEN \A k \in 1..Len(nd) :
            IF to_lowercase(window[k].text) = to_lowercase(nd[k].text)
            THEN upper_count(window[k].text) > upper_count(nd[k].text)
            ELSE FALSE
    ELSE SliceEq(window, nd)

ExactMatches(window, nd, perm) ==
    IF perm
    THEN \A k \in 1..Len(nd) :
            IF to_lowercase(window[k].text) = to_lowercase(nd[k].text)
            THEN upper_count(window[k].text) >= upper_count(nd[k].text)
            ELSE FALSE
    ELSE SliceEq(window, nd)

MatchOffsetIndex(h, i) == i

MatchOffset(h, i) == h[i + 1].start

ExactLength(window, nd) == sum_len(nd)

find_exact_match(h, nd, perm) ==
    LET i == FirstOf({j \in WindowStarts(h, Len(nd)) :
                        ExactMatches(Window(h, j, Len(nd)), nd, perm)})
    IN  IF Len(nd) = 0
        THEN [result |-> Panic, window |-> -1]
        ELSE IF i = -1
        THEN [result |-> None, window |-> -1]
        ELSE [result |-> Exact(MatchOffset(h, i),
                               ExactLength(Window(h, i, Len(nd)), nd)),
              window |-> i]

----------------------------------------------------------------------------
(* find_fuzzy_match *)

Similarity(a, b, perm) ==
    IF perm
    THEN normalized_levenshtein(to_lowercase(a.text), to_lowercase(b.text))
    ELSE normalized_levenshtein(a.text, b.text)

RECURSIVE SimilaritySum(_, _, _, _)
SimilaritySum(window, nd, perm, k) ==
    IF k = 0 THEN Rat(0, 1)
    ELSE RatAdd(SimilaritySum(window, nd, perm, k - 1),
                Similarity(window[k], nd[k], perm))

FuzzyScoreOverWindowSum(window, nd, perm) ==
    RatDiv(SimilaritySum(window, nd, perm, Len(nd)), Len(nd) + 1)

FuzzyScoreSum(window, nd, perm) ==
    SimilaritySum(window, nd, perm, Len(nd))

FuzzyScore(window, nd, perm) ==
    RatDiv(SimilaritySum(window, nd, perm, Len(nd)), Len(nd))

PassesThresholdStrict(window, nd, threshold, perm) ==
    LET score == FuzzyScore(window, nd, perm)
    IN  IF RatGt(score, threshold) /\ perm
        THEN UpperAtLeast(window, nd)
        ELSE RatGt(score, threshold)

PassesThresholdNoUpper(window, nd, threshold, perm) ==
    RatGeq(FuzzyScore(window, nd, perm), threshold)

PassesThreshold(window, nd, threshold, perm) ==
    LET score == FuzzyScore(window, nd, perm)
    IN  IF RatGeq(score, threshold) /\ perm
        THEN UpperAtLeast(window, nd)
        ELSE RatGeq(score, threshold)

find_fuzzy_match(h, nd, threshold, perm) ==
    LET i == FirstOf({j \in WindowStarts(h, Len(nd)) :
                        PassesThreshold(Window(h, j, Len(nd)), nd, threshold, perm)})
    IN  IF Len(nd) = 0
        THEN [result |-> Panic, window |-> -1]
        ELSE IF i = -1
        THEN [result |-> None, window |-> -1]
        ELSE [result |-> Fuzzy(MatchOffset(h, i),
                               sum_len(Window(h, i, Len(nd))),
                               FuzzyScore(Window(h, i, Len(nd)), nd, perm)),
              window |-> i]

----------------------------------------------------------------------------
(* find_match: the result, the window it came from and the matchers run *)

GuardEmptyOnly(h, nd) == Len(nd) = 0

Guard(h, nd) == Len(nd) = 0 \/ Len(nd) > Len(h)

Ran(r, names) == [result |-> r.result, window |-> r.window, ran |-> names]

find_match_fuzzy_first(h, nd, m, perm) ==
    IF Guard(h, nd)
    THEN [result |-> None, window |-> -1, ran |-> <<>>]
    ELSE CASE m.kind = "Exact" -> Ran(find_exact_match(h, nd, perm), <<"exact">>)
           [] m.kind = "Fuzzy" ->
                Ran(find_fuzzy_match(h, nd, m.threshold, perm), <<"fuzzy">>)
           [] m.kind = "Both" ->
                LET f == find_fuzzy_match(h, nd, m.threshold, perm)
                IN  IF f.result # None
                    THEN Ran(f, <<"fuzzy">>)
                    ELSE Ran(find_exact_match(h, nd, perm), <<"fuzzy", "exact">>)

find_match_no_fallback(h, nd, m, perm) ==
    IF Guard(h, nd)
    THEN [result |-> None, window |-> -1, ran |-> <<>>]
    ELSE CASE m.kind = "Exact" -> Ran(find_exact_match(h, nd, perm), <<"exact">>)
           [] m.kind = "Fuzzy" ->
                Ran(find_fuzzy_match(h, nd, m.threshold, perm), <<"fuzzy">>)
           [] m.kind = "Both" -> Ran(find_exact_match(h, nd, perm), <<"exact">>)

find_match(h, nd, m, perm) ==
    IF Guard(h, nd)
    THEN [result |-> None, window |-> -1, ran |-> <<>>]
    ELSE CASE m.kind = "Exact" -> Ran(find_exact_match(h, nd, perm), <<"exact">>)
           [] m.kind = "Fuzzy" ->
                Ran(find_fuzzy_match(h, nd, m.threshold, perm), <<"fuzzy">>)
           [] m.kind = "Both" ->
                LET e == find_exact_match(h, nd, perm)
                IN  IF e.result # None
                    THEN Ran(e, <<"exact">>)
                    ELSE Ran(find_fuzzy_match(h, nd, m.threshold, perm),
                             <<"exact", "fuzzy">>)

----------------------------------------------------------------------------
(* Inputs *)

Texts == {<<"a">>, <<"A">>, <<"a", "b">>}

Layouts == {[gap |-> 0, pad |-> 0], [gap |-> 1, pad |-> 1]}

NeedleLayout == [gap |-> 1, pad |-> 0]

Thresholds == {Rat(0, 1), Rat(1, 2), Rat(1, 1), Rat(3, 2)}

RECURSIVE Place(_, _, _)
Place(texts, start, layout) ==
    IF texts = <<>> THEN <<>>
    ELSE LET len == Len(Head(texts)) + layout.pad
         IN  <<Token(Head(texts), start, len)>>
                 \o Place(Tail(texts), start + len + layout.gap, layout)

TextSeqs(max) == UNION {[1..k -> Texts] : k \in 0..max}

Haystacks == {Place(ts, 0, l) : ts \in TextSeqs(MaxHay), l \in Layouts}

Needles == {Place(ts, 0, NeedleLayout) : ts \in TextSeqs(MaxNeedle)}

Modes == {ModeExact} \cup {ModeFuzzy(t) : t \in Thresholds}
                     \cup {ModeBoth(t) : t \in Thresholds}

----------------------------------------------------------------------------
(* tokenize: the dispatch on the algorithm's classification and the cargo  *)
(* features of the build; the backends are total and return some tokens.    *)

Algorithms ==
    {"None", "Arabic", "Armenian", "Basque", "Catalan", "Danish", "Dutch",
     "DutchPorter", "English", "Esperanto", "Estonian", "Finnish", "French",
     "German", "Greek", "Hindi", "Hungarian", "Indonesian", "Irish", "Italian",
     "Lithuanian", "Lovins", "Nepali", "Norwegian", "Porter", "Portuguese",
     "Romanian", "Russian", "Serbian", "Spanish", "Swedish", "Tamil", "Turkish",
     "Yiddish", "Japanese", "Chinese", "Korean", "Thai", "Burmese", "Lao", "Khmer"}

is_cjk(a) == a \in {"Japanese", "Chinese", "Korean"}

is_southeast_asian(a) == a \in {"Thai", "Burmese", "Lao", "Khmer"}

is_snowball_not_cjk_only(a) == ~is_cjk(a)

is_snowball(a) == ~is_cjk(a) /\ ~is_southeast_asian(a)

JapaneseFeatures ==
    {"japanese-ipadic-neologd-lindera", "japanese-ipadic-lindera",
     "japanese-unidic-lindera", "japanese-icu"}

ChineseFeatures == {"chinese-lindera", "chinese-icu"}

KoreanFeatures == {"korean-lindera"}

CjkFeatures == JapaneseFeatures \cup ChineseFeatures \cup KoreanFeatures

FeatureNames == {"snowball", "southeast-asian"} \cup CjkFeatures

\* The feature sets the crate compiles with: the compile_error! guards allow
\* one Japanese and one Chinese backend, and every arm of tokenize_cjk needs a
\* backend once the function is compiled at all.
Compiles(fs) ==
    /\ Cardinality(fs \cap JapaneseFeatures) <= 1
    /\ Cardinality(fs \cap ChineseFeatures) <= 1
    /\ fs \cap CjkFeatures # {} =>
          /\ fs \cap JapaneseFeatures # {}
          /\ fs \cap ChineseFeatures # {}
          /\ fs \cap KoreanFeatures # {}

Builds == {fs \in SUBSET FeatureNames : Compiles(fs)}

NotCalled == [tag |-> "NotCalled"]

Ok(tokens) == [tag |-> "Ok", tokens |-> tokens]

NoTokenizer(a) == [tag |-> "Err", error |-> "NoTokenizer", algorithm |-> a]

BackendOutputs == {Place(ts, 0, l) : ts \in TextSeqs(MaxNeedle), l \in Layouts}

tokenize(a, fs, backendTokens) ==
    IF is_snowball(a) /\ "snowball" \in fs
    THEN Ok(backendTokens)
    ELSE IF ~is_snowball(a) /\ is_cjk(a) /\ fs \cap CjkFeatures # {}
    THEN Ok(backendTokens)
    ELSE IF ~is_snowball(a) /\ ~is_cjk(a) /\ is_southeast_asian(a)
            /\ "southeast-asian" \in fs
    THEN Ok(backendTokens)
    ELSE NoTokenizer(a)

----------------------------------------------------------------------------
(* The calls: find_match on the whole haystack, then find_all_matches *)

Init ==
    /\ haystack \in Haystacks
    /\ needle \in Needles
    /\ mode \in Modes
    /\ permissive \in BOOLEAN
    /\ pc = "start"
    /\ fmResult = None
    /\ fmWindow = -1
    /\ ran = <<>>
    /\ offset = 0
    /\ results = <<>>
    /\ lastIdx = -1
    /\ ranAll = <<>>
    /\ sliceAt = -1
    /\ algorithm = "None"
    /\ features = {}
    /\ tokResult = NotCalled

FindMatchCall ==
    /\ pc = "start"
    /\ LET r == find_match(haystack, needle, mode, permissive)
       IN  /\ fmResult' = r.result
           /\ fmWindow' = r.window
           /\ ran' = r.ran
    /\ pc' = "all"
    /\ UNCHANGED <<haystack, needle, mode, permissive, offset, results, lastIdx,
                   ranAll, sliceAt, tokVars>>

FindAllReturnEmpty ==
    /\ pc = "all"
    /\ Guard(haystack, needle)
    /\ pc' = "done"
    /\ UNCHANGED <<haystack, needle, mode, permissive, fmResult, fmWindow, ran,
                   offset, results, lastIdx, ranAll, sliceAt, tokVars>>

FindAllBegin ==
    /\ pc = "all"
    /\ ~Guard(haystack, needle)
    /\ results' = <<>>
    /\ offset' = 0
    /\ pc' = "loop"
    /\ UNCHANGED <<haystack, needle, mode, permissive, fmResult, fmWindow, ran,
                   lastIdx, ranAll, sliceAt, tokVars>>

NextOffsetNoAdvance(cursor, start) == cursor + start

NextOffset(cursor, start) == cursor + start + 1

FindAllFound ==
    /\ pc = "loop"
    /\ offset < Len(haystack)
    /\ LET found == find_match(Slice(haystack, offset), needle, mode, permissive)
       IN  /\ found.result # None
           /\ offset' = NextOffset(offset, found.result.offset)
           /\ results' = Append(results, found.result)
           /\ lastIdx' = offset + found.window
           /\ ranAll' = ranAll \o found.ran
    /\ sliceAt' = offset
    /\ UNCHANGED <<haystack, needle, mode, permissive, pc, fmResult, fmWindow, ran,
                   tokVars>>

FindAllBreak ==
    /\ pc = "loop"
    /\ offset < Len(haystack)
    /\ LET found == find_match(Slice(haystack, offset), needle, mode, permissive)
       IN  /\ found.result = None
           /\ ranAll' = ranAll \o found.ran
    /\ sliceAt' = offset
    /\ pc' = "done"
    /\ UNCHANGED <<haystack, needle, mode, permissive, fmResult, fmWindow, ran,
                   offset, results, lastIdx, tokVars>>

FindAllExit ==
    /\ pc = "loop"
    /\ offset >= Len(haystack)
    /\ pc' = "done"
    /\ UNCHANGED <<haystack, needle, mode, permissive, fmResult, fmWindow, ran,
                   offset, results, lastIdx, ranAll, sliceAt, tokVars>>

Next ==
    \/ FindMatchCall
    \/ FindAllReturnEmpty
    \/ FindAllBegin
    \/ FindAllFound
    \/ FindAllBreak
    \/ FindAllExit

Spec == Init /\ [][Next]_vars

----------------------------------------------------------------------------
(* The call of tokenize, for every algorithm and every build *)

TokenizeInit ==
    /\ algorithm \in Algorithms
    /\ features \in Builds
    /\ tokResult = NotCalled
    /\ haystack = <<>>
    /\ needle = <<>>
    /\ mode = ModeExact
    /\ permissive = FALSE
    /\ pc = "tokenize"
    /\ fmResult = None
    /\ fmWindow = -1
    /\ ran = <<>>
    /\ offset = 0
    /\ results = <<>>
    /\ lastIdx = -1
    /\ ranAll = <<>>
    /\ sliceAt = -1

TokenizeCall ==
    /\ pc = "tokenize"
    /\ \E backendTokens \in BackendOutputs :
          tokResult' = tokenize(algorithm, features, backendTokens)
    /\ pc' = "tokenized"
    /\ UNCHANGED <<haystack, needle, mode, permissive, fmResult, fmWindow, ran,
                   offset, results, lastIdx, ranAll, sliceAt, algorithm, features>>

TokenizeNext == TokenizeCall

TokenizeSpec == TokenizeInit /\ [][TokenizeNext]_vars

----------------------------------------------------------------------------
(* Properties *)

Returned == pc # "start"

Searchable == Len(needle) > 0 /\ Len(needle) <= Len(haystack)

Ascending(h) == \A k \in 1..(Len(h) - 1) : h[k].start + h[k].len <= h[k + 1].start

HayWindow(i) == Window(haystack, i, Len(needle))

\* C1: in Exact mode with permissive = false and a non-empty needle no longer
\* than the haystack, find_match returns Some exactly when some contiguous run
\* of haystack tokens has texts equal to the needle's texts position by
\* position; start and len play no part.
C1_ExactIffTextsEqual ==
    (Returned /\ mode.kind = "Exact" /\ ~permissive /\ Searchable) =>
        ((fmResult # None) <=>
            \E i \in 0..(Len(haystack) - Len(needle)) :
                \A k \in 1..Len(needle) : haystack[i + k].text = needle[k].text)

C1_Witness ==
    /\ Returned /\ mode.kind = "Exact" /\ ~permissive /\ Searchable
    /\ fmResult.tag = "Exact"
    /\ fmWindow > 0
    /\ haystack[fmWindow + 1].start # needle[1].start
    /\ haystack[fmWindow + 1].len # needle[1].len

\* C2: when the needle is empty or longer than the haystack, find_match returns
\* None and find_all_matches returns an empty sequence, no window matcher is
\* run by either and neither panics.
C2_GuardedInputsYieldNoMatch ==
    (Len(needle) = 0 \/ Len(needle) > Len(haystack)) =>
        /\ Returned => (fmResult = None /\ ran = <<>>)
        /\ pc \in {"loop", "done"} => (results = <<>> /\ ranAll = <<>>)
        /\ pc # "loop"

C2_Witness ==
    /\ pc = "done"
    /\ Len(haystack) > 0
    /\ Len(needle) > Len(haystack)
    /\ mode.kind = "Both"

\* C3: a result of find_match (Exact or Fuzzy) has the start of the first token
\* of the matched haystack window as its offset and the sum of the len fields
\* of that window's haystack tokens as its length.
C3_LengthIsWindowSpan ==
    (Returned /\ fmResult # None) =>
        /\ fmResult.offset = haystack[fmWindow + 1].start
        /\ fmResult.length = sum_len(HayWindow(fmWindow))

\* C4: in Exact mode with permissive = true, the returned window has no
\* haystack token with strictly fewer uppercase characters than the aligned
\* needle token.
C4_PermissiveNeverFewerUppercase ==
    (Returned /\ mode.kind = "Exact" /\ permissive /\ fmResult # None) =>
        \A i \in WindowStarts(haystack, Len(needle)) :
            haystack[i + 1].start = fmResult.offset =>
                \A k \in 1..Len(needle) :
                    ~(upper_count(haystack[i + k].text) < upper_count(needle[k].text))

C4_Witness ==
    /\ Returned /\ mode.kind = "Exact" /\ permissive
    /\ fmResult.tag = "Exact"
    /\ \E i \in 0..(fmWindow - 1) :
          /\ \A k \in 1..Len(needle) :
                to_lowercase(haystack[i + k].text) = to_lowercase(needle[k].text)
          /\ \E k \in 1..Len(needle) :
                upper_count(haystack[i + k].text) < upper_count(needle[k].text)

C5_PairSum(i) ==
    IF Len(needle) = 1
    THEN Similarity(haystack[i + 1], needle[1], permissive)
    ELSE IF Len(needle) = 2
    THEN RatAdd(Similarity(haystack[i + 1], needle[1], permissive),
                Similarity(haystack[i + 2], needle[2], permissive))
    ELSE RatAdd(RatAdd(Similarity(haystack[i + 1], needle[1], permissive),
                       Similarity(haystack[i + 2], needle[2], permissive)),
                Similarity(haystack[i + 3], needle[3], permissive))

C5_MeanIs(i, score) ==
    score.num * C5_PairSum(i).den * Len(needle) = C5_PairSum(i).num * score.den

\* C5: a Fuzzy result carries the arithmetic mean of the pairwise normalized
\* similarities of the returned window, and with permissive = false a window
\* whose mean equals the threshold is accepted (it, or a window to its left,
\* is returned).
C5_ScoreIsMeanClosedBound ==
    Returned =>
        /\ fmResult.tag = "Fuzzy" =>
              \A i \in WindowStarts(haystack, Len(needle)) :
                  haystack[i + 1].start = fmResult.offset =>
                      C5_MeanIs(i, fmResult.score)
        /\ (mode.kind = "Fuzzy" /\ ~permissive /\ Searchable) =>
              \A i \in WindowStarts(haystack, Len(needle)) :
                  C5_MeanIs(i, mode.threshold) =>
                      /\ fmResult.tag = "Fuzzy"
                      /\ fmResult.offset <= haystack[i + 1].start

C5_Witness ==
    /\ Returned /\ mode.kind = "Fuzzy" /\ ~permissive
    /\ Len(needle) = 2
    /\ fmResult.tag = "Fuzzy"
    /\ fmResult.score = mode.threshold
    /\ fmResult.score = Rat(1, 2)
    /\ fmWindow > 0

\* C6: in Both mode find_match never returns a Fuzzy result when some window
\* satisfies the exact match predicate (when Exact mode returns a result), even
\* when a fuzzy-qualifying window lies to the left of the exact one.
C6_BothNeverFuzzyWhenExactExists ==
    (Returned /\ mode.kind = "Both" /\ Searchable
        /\ \E i \in WindowStarts(haystack, Len(needle)) :
              ExactMatches(HayWindow(i), needle, permissive)) =>
        fmResult.tag = "Exact"

C6_Witness ==
    /\ Returned /\ mode.kind = "Both"
    /\ fmResult.tag = "Exact"
    /\ \E i \in 0..(fmWindow - 1) :
          PassesThreshold(HayWindow(i), needle, mode.threshold, permissive)

\* C7: for a haystack with ascending, non-overlapping token starts, the offsets
\* of the results of find_all_matches are strictly increasing, in every mode.
C7_OffsetsStrictlyIncreasing ==
    Ascending(haystack) =>
        \A k \in 1..(Len(results) - 1) : results[k + 1].offset > results[k].offset

C7_Witness ==
    /\ pc = "done"
    /\ Ascending(haystack)
    /\ Len(results) >= 2
    /\ results[1].tag = "Fuzzy"

\* C8: in Exact mode find_all_matches returns a result for every haystack token
\* index at which the needle-length window satisfies the match predicate.
C8_NoExactWindowMissed ==
    (pc = "done" /\ mode.kind = "Exact" /\ Searchable) =>
        \A i \in WindowStarts(haystack, Len(needle)) :
            ExactMatches(HayWindow(i), needle, permissive) =>
                \E k \in 1..Len(results) : results[k].offset = haystack[i + 1].start

\* C9: after find_all_matches records a match whose window begins at token
\* index i of the full haystack, the cursor is i + 1, so the next dispatcher
\* call searches haystack[i+1..].
C9_CursorOnePastMatchStart ==
    (pc = "loop" /\ lastIdx # -1) => offset = lastIdx + 1

\* C10: every result of find_all_matches has as offset the start field of the
\* first token of a window of the full haystack that satisfies the match
\* predicate of the mode (exact for an Exact result, fuzzy for a Fuzzy one).
C10_OffsetsAreFullHaystackWindowStarts ==
    \A k \in 1..Len(results) :
        \E i \in WindowStarts(haystack, Len(needle)) :
            /\ results[k].offset = haystack[i + 1].start
            /\ IF results[k].tag = "Exact"
               THEN mode.kind \in {"Exact", "Both"}
                    /\ ExactMatches(HayWindow(i), needle, permissive)
               ELSE mode.kind \in {"Fuzzy", "Both"}
                    /\ PassesThreshold(HayWindow(i), needle, mode.threshold, permissive)

C10_Witness ==
    /\ pc = "done"
    /\ Len(haystack) >= 3
    /\ Len(results) >= 2
    /\ results[2].offset = haystack[3].start
    /\ results[2].offset > 2

ReturnedWindows == {i \in WindowStarts(haystack, Len(needle)) :
                        haystack[i + 1].start = fmResult.offset}

\* C11: both window matchers return the leftmost qualifying window: when
\* find_match in Exact (or Fuzzy) mode returns the window at token index i, no
\* window at an index j < i satisfies that mode's match predicate.
C11_LeftmostWindowReturned ==
    (Returned /\ mode.kind \in {"Exact", "Fuzzy"} /\ fmResult # None) =>
        \A i \in ReturnedWindows : \A j \in 0..(i - 1) :
            IF mode.kind = "Exact"
            THEN ~ExactMatches(HayWindow(j), needle, permissive)
            ELSE ~PassesThreshold(HayWindow(j), needle, mode.threshold, permissive)

C11_Witness ==
    /\ Returned /\ mode.kind = "Fuzzy"
    /\ fmResult.tag = "Fuzzy"
    /\ \E i \in ReturnedWindows :
          /\ i > 0
          /\ \E j \in (i + 1)..(Len(haystack) - Len(needle)) :
                PassesThreshold(HayWindow(j), needle, mode.threshold, permissive)

RECURSIVE C12_LowerSum(_, _)
C12_LowerSum(i, k) ==
    IF k = 0 THEN Rat(0, 1)
    ELSE RatAdd(C12_LowerSum(i, k - 1),
                normalized_levenshtein(to_lowercase(haystack[i + k].text),
                                       to_lowercase(needle[k].text)))

C12_LowerMeanGeq(i, t) ==
    C12_LowerSum(i, Len(needle)).num * t.den
        >= t.num * C12_LowerSum(i, Len(needle)).den * Len(needle)

C12_FewerUpper(i) ==
    \E k \in 1..Len(needle) :
        upper_count(haystack[i + k].text) < upper_count(needle[k].text)

\* C12: in Fuzzy mode with permissive = true the score is the mean similarity
\* of the lowercased texts, and the returned window has a score >= threshold
\* and no haystack token with fewer uppercase characters than its needle token.
C12_PermissiveFuzzyNeedsUppercase ==
    (Returned /\ mode.kind = "Fuzzy" /\ permissive /\ fmResult # None) =>
        \A i \in ReturnedWindows :
            /\ fmResult.score = RatDiv(C12_LowerSum(i, Len(needle)), Len(needle))
            /\ C12_LowerMeanGeq(i, mode.threshold)
            /\ ~C12_FewerUpper(i)

C12_Witness ==
    /\ Returned /\ mode.kind = "Fuzzy" /\ permissive
    /\ fmResult.tag = "Fuzzy"
    /\ \E i \in ReturnedWindows : \E j \in 0..(i - 1) :
          C12_LowerMeanGeq(j, mode.threshold) /\ C12_FewerUpper(j)
    /\ \E k \in 1..Len(needle) :
          haystack[fmWindow + k].text # to_lowercase(haystack[fmWindow + k].text)

\* C13: with permissive = true, when some haystack window has for every aligned
\* pair the needle token's lowercase text and at least its uppercase count,
\* find_match in Exact or Both mode returns a match.
C13_MoreCapitalizedStillMatches ==
    (Returned /\ permissive /\ mode.kind \in {"Exact", "Both"} /\ Searchable
        /\ \E i \in 0..(Len(haystack) - Len(needle)) : \A k \in 1..Len(needle) :
              /\ to_lowercase(haystack[i + k].text) = to_lowercase(needle[k].text)
              /\ upper_count(haystack[i + k].text) >= upper_count(needle[k].text)) =>
        fmResult.tag \in {"Exact", "Fuzzy"}

C13_Witness ==
    /\ Returned /\ permissive /\ mode.kind = "Both"
    /\ fmResult.tag = "Exact"
    /\ \E k \in 1..Len(needle) :
          upper_count(haystack[fmWindow + k].text) > upper_count(needle[k].text)

\* C14: in Both(t) mode find_match returns what Exact mode returns when some
\* window satisfies the exact predicate, and otherwise exactly what Fuzzy(t)
\* mode returns (the same Fuzzy result, or None).
C14_BothIsExactElseFuzzy ==
    (Returned /\ mode.kind = "Both") =>
        IF Searchable /\ \E i \in WindowStarts(haystack, Len(needle)) :
                            ExactMatches(HayWindow(i), needle, permissive)
        THEN fmResult = find_match(haystack, needle, ModeExact, permissive).result
        ELSE fmResult =
                find_match(haystack, needle, ModeFuzzy(mode.threshold), permissive).result

C14_Witness ==
    /\ Returned /\ mode.kind = "Both"
    /\ fmResult.tag = "Fuzzy"
    /\ ran = <<"exact", "fuzzy">>
    /\ fmWindow > 0

\* C15: in Fuzzy(t) mode with t > 1.0 find_match returns None and
\* find_all_matches returns an empty sequence.
C15_ThresholdAboveOneNeverMatches ==
    (mode.kind = "Fuzzy" /\ RatGt(mode.threshold, Rat(1, 1))) =>
        /\ Returned => fmResult = None
        /\ results = <<>>

C15_Witness ==
    /\ pc = "done" /\ mode.kind = "Fuzzy" /\ RatGt(mode.threshold, Rat(1, 1))
    /\ Len(needle) = 2 /\ Len(haystack) > 2
    /\ \E i \in WindowStarts(haystack, Len(needle)) :
          \A k \in 1..Len(needle) : haystack[i + k].text = needle[k].text
    /\ ranAll # <<>>

\* C16: in Fuzzy(t) mode with t <= 0.0, permissive = false and a non-empty
\* needle no longer than the haystack, find_match returns the first window of
\* the haystack (offset = haystack[0].start).
C16_ThresholdAtMostZeroTakesFirstWindow ==
    (Returned /\ mode.kind = "Fuzzy" /\ ~RatGt(mode.threshold, Rat(0, 1))
        /\ ~permissive /\ Searchable) =>
        /\ fmResult.tag = "Fuzzy"
        /\ fmResult.offset = haystack[1].start
        /\ fmResult.length = sum_len(SubSeq(haystack, 1, Len(needle)))

C16_Witness ==
    /\ Returned /\ mode.kind = "Fuzzy" /\ ~RatGt(mode.threshold, Rat(0, 1))
    /\ ~permissive
    /\ Len(haystack) > Len(needle)
    /\ fmResult.tag = "Fuzzy"
    /\ fmResult.score = Rat(0, 1)

\* C19: find_all_matches returns an empty sequence exactly when find_match on
\* the same arguments returns None, and otherwise its first element equals the
\* result of find_match on the full haystack.
C19_FirstResultIsFindMatch ==
    pc = "done" =>
        /\ (results = <<>>) <=> (fmResult = None)
        /\ results # <<>> => results[1] = fmResult

C19_Witness ==
    /\ pc = "done"
    /\ Len(results) >= 2
    /\ results[1] = fmResult
    /\ fmWindow > 0

\* C18: find_all_matches terminates: the cursor starts at 0, every iteration
\* that found a match left the cursor strictly above the cursor it searched
\* from, the loop is left on the first iteration without a match or once the
\* cursor has reached haystack.len(), the slice haystack[cursor..] is only
\* taken with cursor < haystack.len(), and the number of results is at most
\* haystack.len().
C18_FindAllTerminates ==
    /\ (pc = "loop" /\ sliceAt = -1) => (offset = 0 /\ results = <<>>)
    /\ (pc = "loop" /\ sliceAt # -1) => (offset > sliceAt /\ lastIdx # -1)
    /\ sliceAt # -1 => (sliceAt >= 0 /\ sliceAt < Len(haystack))
    /\ (pc = "done" /\ Searchable) =>
          \/ offset >= Len(haystack)
          \/ /\ offset = sliceAt
             /\ find_match(Slice(haystack, offset), needle, mode, permissive).result = None
    /\ Len(results) <= Len(haystack)
    /\ Len(results) <= offset

C18_Witness ==
    /\ pc = "done"
    /\ Len(haystack) >= 3
    /\ Len(results) = 2
    /\ offset > Len(haystack)

C17_Snowball ==
    Algorithms \ {"Japanese", "Chinese", "Korean", "Thai", "Burmese", "Lao", "Khmer"}

C17_BackendAvailable ==
    \/ algorithm \in C17_Snowball /\ "snowball" \in features
    \/ algorithm \in {"Japanese", "Chinese", "Korean"} /\ features \cap CjkFeatures # {}
    \/ algorithm \in {"Thai", "Burmese", "Lao", "Khmer"} /\ "southeast-asian" \in features

====
